---- MODULE Spec2Model ----
(***************************************************************************)
(* A model of pubkey_2.py: the extraction of the RSA public exponent and   *)
(* modulus from an SSH public key line.                                    *)
(*                                                                         *)
(* Text is a sequence of code points, bytes are a sequence of 0..255.      *)
(* Every call ends in an outcome: a return of (e, n), or a raised          *)
(* exception with its Python class name, its message and the values the    *)
(* message is formatted with.                                              *)
(***************************************************************************)
EXTENDS Integers, Sequences, FiniteSets, TLC

----------------------------------------------------------------------------
(* Outcomes and exceptions.                                                *)

NoError == [kind |-> "", msg |-> "", args |-> <<>>]

Raise(kind, msg, args) == [kind |-> kind, msg |-> msg, args |-> args]

\* raise ValueError(...) as the source writes it.
ValueError(msg, args) == Raise("ValueError", msg, args)

\* return e, n
Return(e, n) == [kind |-> "return", msg |-> "", args |-> <<e, n>>]

\* A helper's result: the value it returns, or the exception it raises.
Value(v) == [exc |-> NoError, val |-> v]

Throw(x) == [exc |-> x, val |-> <<>>]

Raised(r) == r.exc # NoError

----------------------------------------------------------------------------
(* Text: str.strip() and str.split() with no argument.                     *)

\* "ssh-rsa"
SSH_RSA == <<115, 115, 104, 45, 114, 115, 97>>

\* str.isspace() for a code point below 256.
IsSpace(c) == c \in {9, 10, 11, 12, 13, 28, 29, 30, 31, 32, 133, 160}

RECURSIVE lstrip(_)
lstrip(s) ==
    IF s # <<>> /\ IsSpace(Head(s)) THEN lstrip(Tail(s)) ELSE s

RECURSIVE rstrip(_)
rstrip(s) ==
    IF s # <<>> /\ IsSpace(s[Len(s)])
    THEN rstrip(SubSeq(s, 1, Len(s) - 1))
    ELSE s

\* s.strip()
strip(s) == rstrip(lstrip(s))

RECURSIVE split_from(_, _, _)
split_from(s, cur, acc) ==
    IF s = <<>>
    THEN IF cur = <<>> THEN acc ELSE Append(acc, cur)
    ELSE IF IsSpace(Head(s))
         THEN split_from(Tail(s), <<>>, IF cur = <<>> THEN acc ELSE Append(acc, cur))
         ELSE split_from(Tail(s), Append(cur, Head(s)), acc)

\* s.split(): the maximal runs of non-whitespace, in order.
split(s) == split_from(s, <<>>, <<>>)

----------------------------------------------------------------------------
(* base64.b64decode(s) with its defaults (validate=False).                 *)

\* binascii's table_a2b_base64: the 6-bit value of a character, 64 for a
\* character outside the alphabet.
table_a2b_base64(c) ==
    IF c >= 65 /\ c <= 90 THEN c - 65
    ELSE IF c >= 97 /\ c <= 122 THEN c - 97 + 26
    ELSE IF c >= 48 /\ c <= 57 THEN c - 48 + 52
    ELSE IF c = 43 THEN 62
    ELSE IF c = 47 THEN 63
    ELSE 64

\* binascii.a2b_base64 in non-strict mode: a character outside the alphabet
\* is skipped, a complete pad sequence ends the parse (what follows is not
\* read), and data that ends inside a quad is an error.
RECURSIVE a2b_base64_loop(_, _, _, _, _, _)
a2b_base64_loop(s, i, quad_pos, leftchar, pads, out) ==
    IF i > Len(s)
    THEN IF quad_pos = 0 THEN Value(out)
         ELSE IF quad_pos = 1
         THEN Throw(Raise("binascii.Error",
                  "Invalid base64-encoded string: number of data characters (%zd) cannot be 1 more than a multiple of 4",
                  <<((Len(out) \div 3) * 4) + 1>>))
         ELSE Throw(Raise("binascii.Error", "Incorrect padding", <<>>))
    ELSE IF s[i] = 61   \* BASE64_PAD, '='
    THEN IF quad_pos >= 2 /\ quad_pos + pads + 1 >= 4
         THEN Value(out)
         ELSE a2b_base64_loop(s, i + 1, quad_pos, leftchar,
                              IF quad_pos >= 2 THEN pads + 1 ELSE pads, out)
    ELSE LET this_ch == table_a2b_base64(s[i]) IN
         IF this_ch >= 64
         THEN a2b_base64_loop(s, i + 1, quad_pos, leftchar, pads, out)
         ELSE CASE quad_pos = 0 ->
                     a2b_base64_loop(s, i + 1, 1, this_ch, 0, out)
                [] quad_pos = 1 ->
                     a2b_base64_loop(s, i + 1, 2, this_ch % 16, 0,
                         Append(out, (leftchar * 4) + (this_ch \div 16)))
                [] quad_pos = 2 ->
                     a2b_base64_loop(s, i + 1, 3, this_ch % 4, 0,
                         Append(out, (leftchar * 16) + (this_ch \div 4)))
                [] OTHER ->
                     a2b_base64_loop(s, i + 1, 0, 0, 0,
                         Append(out, (leftchar * 64) + this_ch))

a2b_base64(s) == a2b_base64_loop(s, 1, 0, 0, 0, <<>>)

\* base64.b64decode(s) for a str s: s must be ASCII (_bytes_from_decode_data),
\* then binascii.a2b_base64.
b64decode(s) ==
    IF \E i \in 1..Len(s) : s[i] >= 128
    THEN Throw(ValueError("string argument should contain only ASCII characters", <<>>))
    ELSE a2b_base64(s)

----------------------------------------------------------------------------
(* Bytes: struct.unpack('>I', ...), int.from_bytes(..., 'big'),            *)
(* bytes.decode().                                                         *)

\* struct.unpack('>I', b)[0]: four bytes as an unsigned big-endian integer.
unpack_BE_I(b) == ((((b[1] * 256) + b[2]) * 256 + b[3]) * 256) + b[4]

\* int.from_bytes(b, 'big'): unsigned, most significant byte first; 0 for b''.
RECURSIVE from_bytes_acc(_, _)
from_bytes_acc(b, acc) ==
    IF b = <<>> THEN acc ELSE from_bytes_acc(Tail(b), (acc * 256) + Head(b))

\* A reading with the least significant byte first.
RECURSIVE from_bytes_little(_)
from_bytes_little(b) ==
    IF b = <<>> THEN 0 ELSE Head(b) + (256 * from_bytes_little(Tail(b)))

\* A reading as a signed (two's complement) integer.
RECURSIVE from_bytes_span(_)
from_bytes_span(b) == IF b = <<>> THEN 1 ELSE 256 * from_bytes_span(Tail(b))

from_bytes_signed(b) ==
    IF b # <<>> /\ Head(b) >= 128
    THEN from_bytes_acc(b, 0) - from_bytes_span(b)
    ELSE from_bytes_acc(b, 0)

from_bytes(b) == from_bytes_acc(b, 0)

\* data[lo:hi] for 0 <= lo, with Python's clamping at len(data).
Slice(data, lo, hi) ==
    LET h == IF hi > Len(data) THEN Len(data) ELSE hi IN
    IF lo >= h THEN <<>> ELSE SubSeq(data, lo + 1, h)

IsCont(b, i) == i <= Len(b) /\ b[i] >= 128 /\ b[i] <= 191

\* The number of bytes of the well-formed UTF-8 sequence that starts at
\* b[i], 0 when there is none (strict UTF-8: no overlong forms, no
\* surrogates, nothing above U+10FFFF).
utf8_width(b, i) ==
    LET c == b[i] IN
    IF c <= 127 THEN 1
    ELSE IF c >= 194 /\ c <= 223
    THEN IF IsCont(b, i + 1) THEN 2 ELSE 0
    ELSE IF c >= 224 /\ c <= 239
    THEN IF /\ IsCont(b, i + 1) /\ IsCont(b, i + 2)
            /\ (c = 224 => b[i + 1] >= 160)
            /\ (c = 237 => b[i + 1] <= 159)
         THEN 3 ELSE 0
    ELSE IF c >= 240 /\ c <= 244
    THEN IF /\ IsCont(b, i + 1) /\ IsCont(b, i + 2) /\ IsCont(b, i + 3)
            /\ (c = 240 => b[i + 1] >= 144)
            /\ (c = 244 => b[i + 1] <= 143)
         THEN 4 ELSE 0
    ELSE 0

\* The low k bits of a byte, k given as the modulus 2^k.
Low(x, m) == x % m

utf8_codepoint(b, i, w) ==
    CASE w = 1 -> b[i]
      [] w = 2 -> (Low(b[i], 32) * 64) + Low(b[i + 1], 64)
      [] w = 3 -> (((Low(b[i], 16) * 64) + Low(b[i + 1], 64)) * 64)
                  + Low(b[i + 2], 64)
      [] OTHER -> (((((Low(b[i], 8) * 64) + Low(b[i + 1], 64)) * 64)
                  + Low(b[i + 2], 64)) * 64) + Low(b[i + 3], 64)

\* bytes.decode(): strict UTF-8 to text; UnicodeDecodeError, with the
\* position of the first byte that cannot be decoded, otherwise.
RECURSIVE decode_from(_, _, _)
decode_from(b, i, acc) ==
    IF i > Len(b) THEN Value(acc)
    ELSE LET w == utf8_width(b, i) IN
         IF w = 0
         THEN Throw(Raise("UnicodeDecodeError",
                          "'utf-8' codec can't decode", <<i - 1>>))
         ELSE decode_from(b, i + w, Append(acc, utf8_codepoint(b, i, w)))

decode(b) == decode_from(b, 1, <<>>)

----------------------------------------------------------------------------
(* read_ssh_string, the closure of extract_rsa_components_from_string.     *)

\* What read_ssh_string returns: (data[offset:offset+length], offset+length).
Field(payload, offset) == [payload |-> payload, offset |-> offset]

\* A reader that takes a payload ending at the end of the data for one
\* that passes it (>= for >).
read_ssh_string_off_by_one(data, offset) ==
    IF offset + 4 > Len(data)
    THEN Throw(ValueError("Cannot read length at offset {offset}", <<offset>>))
    ELSE LET length == unpack_BE_I(Slice(data, offset, offset + 4))
             off    == offset + 4
         IN  IF off + length >= Len(data)
             THEN Throw(ValueError("Cannot read {length} bytes at offset {offset}",
                                   <<length, off>>))
             ELSE Value(Field(Slice(data, off, off + length), off + length))

read_ssh_string(data, offset) ==
    IF offset + 4 > Len(data)
    THEN Throw(ValueError("Cannot read length at offset {offset}", <<offset>>))
    ELSE LET length == unpack_BE_I(Slice(data, offset, offset + 4))
             off    == offset + 4
         IN  IF off + length > Len(data)
             THEN Throw(ValueError("Cannot read {length} bytes at offset {offset}",
                                   <<length, off>>))
             ELSE Value(Field(Slice(data, off, off + length), off + length))

----------------------------------------------------------------------------
(* extract_rsa_components_from_string as a function of its argument.       *)

extract_rsa_components_from_string(public_key_string) ==
    LET content == strip(public_key_string)
        parts   == split(content)
    IN
    IF Len(parts) < 2
    THEN ValueError("Invalid SSH public key format", <<>>)
    ELSE IF parts[1] # SSH_RSA
    THEN ValueError("Expected ssh-rsa key type, got {key_type}", parts[1])
    ELSE LET kd == b64decode(parts[2]) IN
    IF Raised(kd) THEN kd.exc
    ELSE LET f1 == read_ssh_string(kd.val, 0) IN
    IF Raised(f1) THEN f1.exc
    ELSE LET name == decode(f1.val.payload) IN
    IF Raised(name) THEN name.exc
    ELSE IF name.val # SSH_RSA
    THEN ValueError("Invalid key type in data: {key_type_bytes.decode()}", name.val)
    ELSE LET f2 == read_ssh_string(kd.val, f1.val.offset) IN
    IF Raised(f2) THEN f2.exc
    ELSE LET f3 == read_ssh_string(kd.val, f2.val.offset) IN
    IF Raised(f3) THEN f3.exc
    ELSE Return(from_bytes(f2.val.payload), from_bytes(f3.val.payload))

----------------------------------------------------------------------------
(* extract_rsa_components_manual: the same parse behind a file read.       *)

\* A read of the first line only (readline for read).
RECURSIVE open_readline(_)
open_readline(file) ==
    IF file = <<>> THEN <<>>
    ELSE IF Head(file) \in {10, 13} THEN <<10>>
    ELSE <<Head(file)>> \o open_readline(Tail(file))

\* open(path, 'r').read(): text mode with universal newlines, "\r\n" and a
\* lone "\r" both read as "\n".
RECURSIVE open_read(_)
open_read(file) ==
    IF file = <<>> THEN <<>>
    ELSE IF Head(file) = 13
    THEN <<10>> \o open_read(IF Len(file) >= 2 /\ file[2] = 10
                             THEN Tail(Tail(file)) ELSE Tail(file))
    ELSE <<Head(file)>> \o open_read(Tail(file))

\* read_ssh_string, the closure of extract_rsa_components_manual.
read_ssh_string_manual(data, offset) ==
    IF offset + 4 > Len(data)
    THEN Throw(ValueError("Cannot read length at offset {offset}", <<offset>>))
    ELSE LET length == unpack_BE_I(Slice(data, offset, offset + 4))
             off    == offset + 4
         IN  IF off + length > Len(data)
             THEN Throw(ValueError("Cannot read {length} bytes at offset {offset}",
                                   <<length, off>>))
             ELSE Value(Field(Slice(data, off, off + length), off + length))

\* The argument is the content of the file at public_key_file, which the
\* call can read.
extract_rsa_components_manual(file) ==
    LET content == strip(open_read(file))
        parts   == split(content)
    IN
    IF Len(parts) < 2
    THEN ValueError("Invalid SSH public key format", <<>>)
    ELSE IF parts[1] # SSH_RSA
    THEN ValueError("Expected ssh-rsa key type, got {key_type}", parts[1])
    ELSE LET kd == b64decode(parts[2]) IN
    IF Raised(kd) THEN kd.exc
    ELSE LET f1 == read_ssh_string_manual(kd.val, 0) IN
    IF Raised(f1) THEN f1.exc
    ELSE LET name == decode(f1.val.payload) IN
    IF Raised(name) THEN name.exc
    ELSE IF name.val # SSH_RSA
    THEN ValueError("Invalid key type in data: {key_type_bytes.decode()}", name.val)
    ELSE LET f2 == read_ssh_string_manual(kd.val, f1.val.offset) IN
    IF Raised(f2) THEN f2.exc
    ELSE LET f3 == read_ssh_string_manual(kd.val, f2.val.offset) IN
    IF Raised(f3) THEN f3.exc
    ELSE Return(from_bytes(f2.val.payload), from_bytes(f3.val.payload))

----------------------------------------------------------------------------
(* The key lines the calls are made with.  A line is built from the        *)
(* tokens and the blob it is meant to carry, and the description it was    *)
(* built from is kept beside it, so that a property can say what the       *)
(* call owes to that line.  Python's integers are unbounded; the lengths   *)
(* and the keys of these lines stay below 2^31, the range of the model     *)
(* checker's integers.                                                     *)

\* Bounds of the inputs.
MaxInt == 2

MaxPad == 1

MaxLen == 2

MaxExtra == 2

\* The sequences over S of length at most n.
RECURSIVE SeqsUpTo(_, _)
SeqsUpTo(S, n) ==
    IF n = 0 THEN {<<>>}
    ELSE LET shorter == SeqsUpTo(S, n - 1) IN
         shorter \cup {Append(q, x) : q \in shorter, x \in S}

\* The writer's side of the wire format: the shortest unsigned big-endian
\* byte string of v (none for 0), computed by division.
RECURSIVE to_bytes(_)
to_bytes(v) ==
    IF v = 0 THEN <<>> ELSE Append(to_bytes(v \div 256), v % 256)

Zeros(k) == [i \in 1..k |-> 0]

\* A length as four big-endian bytes.
be32(v) ==
    <<v \div 16777216, (v \div 65536) % 256, (v \div 256) % 256, v % 256>>

\* [4-byte big-endian length][payload]
wire_field(payload) == be32(Len(payload)) \o payload

\* The base64 alphabet, by value.
b64_char(v) ==
    IF v < 26 THEN 65 + v
    ELSE IF v < 52 THEN 97 + (v - 26)
    ELSE IF v < 62 THEN 48 + (v - 52)
    ELSE IF v = 62 THEN 43
    ELSE 47

\* base64.b64encode: three bytes to four characters, '=' padding.
RECURSIVE b64encode(_)
b64encode(b) ==
    IF b = <<>> THEN <<>>
    ELSE IF Len(b) = 1
    THEN <<b64_char(b[1] \div 4), b64_char((b[1] % 4) * 16), 61, 61>>
    ELSE IF Len(b) = 2
    THEN <<b64_char(b[1] \div 4),
           b64_char(((b[1] % 4) * 16) + (b[2] \div 16)),
           b64_char((b[2] % 16) * 4), 61>>
    ELSE <<b64_char(b[1] \div 4),
           b64_char(((b[1] % 4) * 16) + (b[2] \div 16)),
           b64_char(((b[2] % 16) * 4) + (b[3] \div 64)),
           b64_char(b[3] % 64)>> \o b64encode(SubSeq(b, 4, Len(b)))

\* Text with junk inserted before its character at index pos + 1.
InsertAt(t, pos, junk) ==
    SubSeq(t, 1, pos) \o junk \o SubSeq(t, pos + 1, Len(t))

\* Layouts of a line: what stands before token 0, between the tokens, and
\* after token 1 (white space, and for some a comment).
Plain == [lead |-> <<>>, sep |-> <<32>>, tail |-> <<>>]

\* " user@host"
Comment == <<32, 117, 115, 101, 114, 64, 104, 111, 115, 116>>

Layouts ==
    { Plain,
      [lead |-> <<32>>, sep |-> <<9>>, tail |-> <<10>>],
      [lead |-> <<10, 9, 32>>, sep |-> <<32, 32>>, tail |-> <<32, 13, 10>>],
      [lead |-> <<11>>, sep |-> <<13>>, tail |-> <<12, 31>>],
      [lead |-> <<>>, sep |-> <<32>>, tail |-> Comment],
      [lead |-> <<>>, sep |-> <<32>>, tail |-> Comment \o <<32, 120, 32, 61, 33, 10>>],
      [lead |-> <<>>, sep |-> <<13, 10>>, tail |-> <<13, 10>> \o SSH_RSA \o <<32, 65, 65, 65, 65>>] }

\* The description of a line:
\*   ntok            the tokens it has before any comment (0, 1 or 2)
\*   tok0, tok1      the tokens
\*   lay             its layout
\*   tag, eb, nb     the payloads of the three fields of the blob
\*   elen            the length the exponent's prefix declares
\*   extra           bytes after the modulus field
\*   cut             the bytes of the blob kept (all of them: not truncated)
\*   clean           token 1 is exactly the base64 of the kept bytes
\*   fam             what the line is an instance of
Blob(tag, elen, eb, nb, extra) ==
    wire_field(tag) \o be32(elen) \o eb \o wire_field(nb) \o extra

BlobLen(tag, eb, nb, extra) == 12 + Len(tag) + Len(eb) + Len(nb) + Len(extra)

BlobLine(fam, tok0, lay, tag, elen, eb, nb, extra, cut) ==
    [fam |-> fam, ntok |-> 2, tok0 |-> tok0,
     tok1 |-> b64encode(SubSeq(Blob(tag, elen, eb, nb, extra), 1, cut)),
     lay |-> lay, tag |-> tag, elen |-> elen, eb |-> eb, nb |-> nb,
     extra |-> extra, cut |-> cut, clean |-> TRUE]

\* A well-formed line for the key (eb, nb).
GoodLine(fam, lay, eb, nb, extra) ==
    BlobLine(fam, SSH_RSA, lay, SSH_RSA, Len(eb), eb, nb, extra,
             BlobLen(SSH_RSA, eb, nb, extra))

\* A line whose tokens are given as text.
TextLine(fam, ntok, tok0, tok1, lay) ==
    [fam |-> fam, ntok |-> ntok, tok0 |-> tok0, tok1 |-> tok1, lay |-> lay,
     tag |-> <<>>, elen |-> 0, eb |-> <<>>, nb |-> <<>>, extra |-> <<>>,
     cut |-> 0, clean |-> FALSE]

TextOf(i) ==
    i.lay.lead \o (IF i.ntok >= 1 THEN i.tok0 ELSE <<>>)
               \o (IF i.ntok >= 2 THEN i.lay.sep \o i.tok1 ELSE <<>>)
               \o i.lay.tail

\* Layouts of white space only.
BlankLayouts == {l \in Layouts : split(l.lead \o l.sep \o l.tail) = <<>>}

\* The integers of the keys that are written and read back.
Ints == (0..MaxInt) \cup {127, 128, 255, 256, 65537, 66051}

\* Payloads, by content: with and without leading zeros and a high bit.
Payloads == SeqsUpTo({0, 129}, MaxLen) \cup {<<1, 0, 1>>, <<1, 2, 3>>}

Extras == SeqsUpTo({0, 7}, MaxExtra)

\* "ssh-dss", "SSH-RSA", "ssh-rs", "ssh-rsa" and a NUL, "ssh-rs" and U+00E9
\* in UTF-8, and three byte strings that are not UTF-8.
InnerTags ==
    { <<>>, <<115, 115, 104, 45, 100, 115, 115>>,
      <<83, 83, 72, 45, 82, 83, 65>>, <<115, 115, 104, 45, 114, 115>>,
      SSH_RSA \o <<0>>, <<115, 115, 104, 45, 114, 115, 195, 169>>,
      <<255>>, SSH_RSA \o <<128>>, <<115, 115, 104, 45, 114, 115, 195>> }

\* "dsa-key", "SSH-RSA", "ssh-rsa2", "ssh-rs", "ssh-rsa=", "AAAA"
OuterTags ==
    { <<100, 115, 97, 45, 107, 101, 121>>, <<83, 83, 72, 45, 82, 83, 65>>,
      SSH_RSA \o <<50>>, <<115, 115, 104, 45, 114, 115>>, SSH_RSA \o <<61>>,
      <<65, 65, 65, 65>> }

\* "!!!notbase64!!!"
NotBase64 ==
    <<33, 33, 33, 110, 111, 116, 98, 97, 115, 101, 54, 52, 33, 33, 33>>

\* The key of the spec's scenario: e = 65537, n = 66051.
Scenario == GoodLine("good", Plain, <<1, 0, 1>>, <<1, 2, 3>>, <<>>)

\* Every (e, n) of Ints written as the spec's wire format, the integers in
\* their shortest form behind pad zero bytes.
RoundTripLines ==
    { GoodLine("roundtrip", Plain,
               Zeros(pad) \o to_bytes(e), Zeros(pad) \o to_bytes(n), <<>>) :
        e \in Ints, n \in Ints, pad \in 0..MaxPad }

\* Every pair of payloads, followed by any extra bytes.
TrailingLines ==
    { GoodLine("trailing", Plain, eb, nb, extra) :
        eb \in Payloads, nb \in Payloads, extra \in Extras }

\* Blobs cut short at every length (an empty blob would be no token), and
\* blobs whose exponent prefix declares more bytes than follow it.
TruncatedLines ==
    LET Cut(eb, nb) ==
            { BlobLine("truncated", SSH_RSA, Plain, SSH_RSA, Len(eb), eb, nb,
                       <<>>, cut) :
                cut \in 1..(BlobLen(SSH_RSA, eb, nb, <<>>) - 1) }
        Over(eb, nb) ==
            { BlobLine("truncated", SSH_RSA, Plain, SSH_RSA, elen, eb, nb,
                       <<>>, BlobLen(SSH_RSA, eb, nb, <<>>)) :
                elen \in { Len(eb) + Len(nb) + 5, 255, 256, 65536, 16777216,
                           2130706432 } }
    IN  UNION { Cut(eb, nb) \cup Over(eb, nb) :
                  eb \in {<<>>, <<1, 0, 1>>}, nb \in {<<>>, <<1, 2, 3>>} }

\* Blobs whose first field is not "ssh-rsa", whole and cut inside the
\* exponent field.
InnerTagLines ==
    UNION { { BlobLine("innertag", SSH_RSA, Plain, tag, 3, <<1, 0, 1>>,
                       <<1, 2, 3>>, <<>>, cut) :
                cut \in { BlobLen(tag, <<1, 0, 1>>, <<1, 2, 3>>, <<>>),
                          4 + Len(tag) + 2, 4 + Len(tag) + 5 } } :
            tag \in InnerTags }

\* Lines whose token 0 is not "ssh-rsa", with every kind of token 1.
OuterTagLines ==
    { TextLine("outertag", 2, tok0, tok1, lay) :
        tok0 \in OuterTags,
        tok1 \in { Scenario.tok1, <<65, 65, 65, 65>>, NotBase64,
                   SubSeq(Scenario.tok1, 1, 20) },
        lay \in Layouts }

\* Lines of fewer than two tokens.
ShortLines ==
    { TextLine("short", ntok, tok0, <<>>, lay) :
        ntok \in {0, 1},
        tok0 \in {SSH_RSA, <<120>>, Scenario.tok1, NotBase64},
        lay \in BlankLayouts }

\* Lines whose token 1 is not the base64 of anything: the scenario's token
\* with a character outside the alphabet or a '=' put in, with characters
\* taken off its end, with text after its padding; and the spec's example.
BadBase64Lines ==
    LET good == Scenario.tok1
        pad1 == GoodLine("good", Plain, <<1, 0, 1>>, <<1>>, <<>>).tok1
    IN  { TextLine("badbase64", 2, SSH_RSA, tok1, Plain) :
            tok1 \in { InsertAt(good, pos, junk) :
                         pos \in 0..Len(good),
                         junk \in {<<33>>, <<61>>, <<45, 95>>, <<233>>} }
                  \cup { SubSeq(t, 1, Len(t) - k) :
                           t \in {good, pad1}, k \in 1..3 }
                  \cup { pad1 \o <<65, 65, 65, 65>>, pad1 \o <<33, 33>>,
                         NotBase64, <<61>>, <<33>> } }

\* The scenario's key in every layout.
LayoutLines ==
    { GoodLine("layout", lay, <<1, 0, 1>>, <<1, 2, 3>>, extra) :
        lay \in Layouts, extra \in {<<>>, <<0, 7>>} }

Inputs ==
    RoundTripLines \cup TrailingLines \cup TruncatedLines \cup InnerTagLines
    \cup OuterTagLines \cup ShortLines \cup BadBase64Lines \cup LayoutLines

----------------------------------------------------------------------------
(* One call of extract_rsa_components_from_string(text), statement by      *)
(* statement, and one call of extract_rsa_components_manual on a file      *)
(* that holds the same text.                                               *)

VARIABLES
    inp,             \* the description the line was built from
    text,            \* public_key_string, and the content of the file
    pc,              \* where the call of ..._from_string stands
    parts,           \* content.split()
    key_data,        \* the decoded blob
    offset,          \* the offset the next field is read at
    e_bytes,         \* the exponent's payload, once read
    reads,           \* the field reads made: <<offset, what came back>>
    outcome,         \* what the call returned or raised
    manual           \* what the call of ..._manual returned or raised

vars == <<inp, text, pc, parts, key_data, offset, e_bytes, reads, outcome, manual>>

Pending == [kind |-> "pending", msg |-> "", args |-> <<>>]

Init ==
    /\ inp \in Inputs
    /\ text = TextOf(inp)
    /\ pc = "Start"
    /\ parts = <<>>
    /\ key_data = <<>>
    /\ offset = 0
    /\ e_bytes = <<>>
    /\ reads = <<>>
    /\ outcome = Pending
    /\ manual = Pending

\* The call ends by raising x.
Fail(x) ==
    /\ pc' = "Error"
    /\ outcome' = x

\* A check that lets a single token through (< 1 for < 2).
malformed_one(p) == Len(p) < 1

\* if len(parts) < 2
malformed(p) == Len(p) < 2

\* A check of the first seven characters only (startswith for !=).
unsupported_prefix(key_type) ==
    Len(key_type) < 7 \/ SubSeq(key_type, 1, 7) # SSH_RSA

\* if key_type != "ssh-rsa"
unsupported(key_type) == key_type # SSH_RSA

\* content = public_key_string.strip(); parts = content.split();
\* the line must have two tokens.
SplitLine ==
    /\ pc = "Start"
    /\ LET content == strip(text) IN
       /\ parts' = split(content)
       /\ IF malformed(parts')
          THEN Fail(ValueError("Invalid SSH public key format", <<>>))
          ELSE pc' = "CheckKeyType" /\ UNCHANGED outcome
    /\ UNCHANGED <<inp, text, key_data, offset, e_bytes, reads, manual>>

\* key_type = parts[0] must be "ssh-rsa".
CheckKeyType ==
    /\ pc = "CheckKeyType"
    /\ LET key_type == parts[1] IN
       IF unsupported(key_type)
       THEN Fail(ValueError("Expected ssh-rsa key type, got {key_type}", key_type))
       ELSE pc' = "DecodeBase64" /\ UNCHANGED outcome
    /\ UNCHANGED <<inp, text, parts, key_data, offset, e_bytes, reads, manual>>

\* key_data = base64.b64decode(parts[1]); offset = 0
DecodeBase64 ==
    /\ pc = "DecodeBase64"
    /\ LET r == b64decode(parts[2]) IN
       IF Raised(r)
       THEN Fail(r.exc) /\ UNCHANGED <<key_data, offset>>
       ELSE /\ key_data' = r.val
            /\ offset' = 0
            /\ pc' = "ExpectTypeTag"
            /\ UNCHANGED outcome
    /\ UNCHANGED <<inp, text, parts, e_bytes, reads, manual>>

\* A first read that leaves the type tag unchecked.
ReadKeyType_unchecked ==
    /\ pc = "ExpectTypeTag"
    /\ LET r == read_ssh_string(key_data, offset) IN
       /\ reads' = Append(reads, <<offset, r>>)
       /\ IF Raised(r)
          THEN Fail(r.exc) /\ UNCHANGED offset
          ELSE /\ offset' = r.val.offset
               /\ pc' = "ExpectExponent"
               /\ UNCHANGED outcome
    /\ UNCHANGED <<inp, text, parts, key_data, e_bytes, manual>>

\* key_type_bytes, offset = read_ssh_string(key_data, offset), and
\* key_type_bytes.decode() must be "ssh-rsa".
ReadKeyType ==
    /\ pc = "ExpectTypeTag"
    /\ LET r == read_ssh_string(key_data, offset) IN
       /\ reads' = Append(reads, <<offset, r>>)
       /\ IF Raised(r)
          THEN Fail(r.exc) /\ UNCHANGED offset
          ELSE LET name == decode(r.val.payload) IN
               /\ offset' = r.val.offset
               /\ IF Raised(name)
                  THEN Fail(name.exc)
                  ELSE IF name.val # SSH_RSA
                  THEN Fail(ValueError(
                           "Invalid key type in data: {key_type_bytes.decode()}",
                           name.val))
                  ELSE pc' = "ExpectExponent" /\ UNCHANGED outcome
    /\ UNCHANGED <<inp, text, parts, key_data, e_bytes, manual>>

\* e_bytes, offset = read_ssh_string(key_data, offset)
ReadExponent ==
    /\ pc = "ExpectExponent"
    /\ LET r == read_ssh_string(key_data, offset) IN
       /\ reads' = Append(reads, <<offset, r>>)
       /\ IF Raised(r)
          THEN Fail(r.exc) /\ UNCHANGED <<offset, e_bytes>>
          ELSE /\ e_bytes' = r.val.payload
               /\ offset' = r.val.offset
               /\ pc' = "ExpectModulus"
               /\ UNCHANGED outcome
    /\ UNCHANGED <<inp, text, parts, key_data, manual>>

\* n_bytes, offset = read_ssh_string(key_data, offset);
\* e = int.from_bytes(e_bytes, 'big'); n = int.from_bytes(n_bytes, 'big');
\* return e, n
ReadModulus ==
    /\ pc = "ExpectModulus"
    /\ LET r == read_ssh_string(key_data, offset) IN
       /\ reads' = Append(reads, <<offset, r>>)
       /\ IF Raised(r)
          THEN Fail(r.exc) /\ UNCHANGED offset
          ELSE /\ offset' = r.val.offset
               /\ pc' = "Done"
               /\ outcome' = Return(from_bytes(e_bytes), from_bytes(r.val.payload))
    /\ UNCHANGED <<inp, text, parts, key_data, e_bytes, manual>>

\* extract_rsa_components_manual(path), the file at path holding text.
CallManual ==
    /\ manual = Pending
    /\ manual' = extract_rsa_components_manual(text)
    /\ UNCHANGED <<inp, text, pc, parts, key_data, offset, e_bytes, reads, outcome>>

Next ==
    \/ SplitLine
    \/ CheckKeyType
    \/ DecodeBase64
    \/ ReadKeyType
    \/ ReadExponent
    \/ ReadModulus
    \/ CallManual

Spec == Init /\ [][Next]_vars

----------------------------------------------------------------------------
(* Properties.                                                             *)
(*                                                                         *)
(* The spec names the errors FormatError and TruncatedError; the source    *)
(* raises ValueError throughout, and lets binascii.Error and               *)
(* UnicodeDecodeError (both subclasses of ValueError) escape from          *)
(* b64decode and bytes.decode.  A property names an error by the class     *)
(* and the message the source raises where the spec's error is due:        *)
(*   "malformed key line"     ValueError: Invalid SSH public key format    *)
(*   "unsupported key type"   ValueError: Expected ssh-rsa key type, got   *)
(*   "blob type mismatch"     ValueError: Invalid key type in data:        *)
(*   "length prefix out of bounds"   ValueError: Cannot read length at     *)
(*   "payload out of bounds"         ValueError: Cannot read ... bytes at  *)

Ended == pc \in {"Done", "Error"}

MalformedKeyLine == ValueError("Invalid SSH public key format", <<>>)

UnsupportedKeyType(tok) ==
    ValueError("Expected ssh-rsa key type, got {key_type}", tok)

BlobTypeMismatch(got) ==
    ValueError("Invalid key type in data: {key_type_bytes.decode()}", got)

LengthPrefixOutOfBounds(at) ==
    ValueError("Cannot read length at offset {offset}", <<at>>)

PayloadOutOfBounds(length, at) ==
    ValueError("Cannot read {length} bytes at offset {offset}", <<length, at>>)

\* C1: a key (e, n) written in the wire format and base64-encoded into the
\* line 'ssh-rsa <base64>' is read back as exactly (e, n): the call never
\* fails, and what it returns is the pair that was written.
C1_RoundTrip ==
    \A e \in Ints, n \in Ints, pad \in 0..MaxPad :
        ( /\ inp.fam = "roundtrip"
          /\ inp.eb = Zeros(pad) \o to_bytes(e)
          /\ inp.nb = Zeros(pad) \o to_bytes(n) )
        => /\ pc # "Error"
           /\ pc = "Done" => outcome = Return(e, n)

C1_Witness ==
    /\ inp.fam = "roundtrip"
    /\ inp.eb = <<0, 1, 0, 1>>
    /\ inp.nb = <<0, 1, 2, 3>>
    /\ pc = "Done"
    /\ outcome = Return(65537, 66051)

\* C2: bytes after the modulus field change nothing: the blob alone decodes,
\* the blob followed by any extra bytes decodes to the same (e, n), and no
\* fourth field is read.
C2_TrailingIgnored ==
    inp.fam = "trailing" =>
        LET alone == extract_rsa_components_from_string(
                         TextOf(GoodLine("trailing", Plain, inp.eb, inp.nb, <<>>)))
        IN  /\ alone.kind = "return"
            /\ pc # "Error"
            /\ Len(reads) <= 3
            /\ pc = "Done" => outcome = alone

C2_Witness ==
    /\ inp.fam = "trailing"
    /\ inp.extra = <<0, 7>>
    /\ inp.eb = <<129>>
    /\ pc = "Done"
    /\ offset + 2 = Len(key_data)
    /\ outcome = Return(129, 0)

\* The error a truncated blob owes, from how the blob was built: the first
\* field whose prefix or payload passes the end of the kept bytes.
TruncationOf(i) ==
    LET s1 == 0
        s2 == 4 + Len(i.tag)
        s3 == s2 + 4 + i.elen
    IN  IF i.cut < s1 + 4 THEN LengthPrefixOutOfBounds(s1)
        ELSE IF i.cut < s1 + 4 + Len(i.tag)
        THEN PayloadOutOfBounds(Len(i.tag), s1 + 4)
        ELSE IF i.cut < s2 + 4 THEN LengthPrefixOutOfBounds(s2)
        ELSE IF i.cut < s2 + 4 + i.elen
        THEN PayloadOutOfBounds(i.elen, s2 + 4)
        ELSE IF i.cut < s3 + 4 THEN LengthPrefixOutOfBounds(s3)
        ELSE PayloadOutOfBounds(Len(i.nb), s3 + 4)

\* The class the format errors (lines 84, 88 and 112) are raised with.
FormatErrorKind == MalformedKeyLine.kind

\* C3: a blob truncated at any of the three field reads makes the call fail
\* with an error of a kind of its own, distinct from that of the format
\* errors, which carries the offset of the length prefix when fewer than 4
\* bytes are left at the start of the field, and the declared length L and
\* offset + 4 when the payload passes the end; no (e, n) is returned.  The
\* offsets are compared by message and arguments, whatever the class, so a
\* reader with a TruncatedError class of its own would satisfy this.
C3_TruncatedError ==
    inp.fam = "truncated" =>
        /\ pc # "Done"
        /\ outcome.kind # "return"
        /\ pc = "Error" =>
              /\ outcome.msg = TruncationOf(inp).msg
              /\ outcome.args = TruncationOf(inp).args
              /\ outcome.kind # FormatErrorKind

\* What the source keeps of C3: the offsets and the length reported, in a
\* ValueError.
TruncatedOffsets ==
    inp.fam = "truncated" =>
        /\ pc # "Done"
        /\ outcome.kind # "return"
        /\ pc = "Error" => outcome = TruncationOf(inp)

\* Strict base64: quads of alphabet characters, the last one closed by at
\* most two '='.
ValidBase64(t) ==
    LET pads == IF Len(t) >= 2 /\ t[Len(t)] = 61 /\ t[Len(t) - 1] = 61 THEN 2
                ELSE IF Len(t) >= 1 /\ t[Len(t)] = 61 THEN 1
                ELSE 0
    IN  /\ Len(t) % 4 = 0
        /\ \A k \in 1..(Len(t) - pads) : table_a2b_base64(t[k]) < 64

\* C4: when token 0 is 'ssh-rsa' and token 1 is not valid base64, the call
\* fails before any field of the blob is read and returns nothing.
C4_StrictBase64 ==
    ( /\ inp.ntok = 2
      /\ inp.tok0 = SSH_RSA
      /\ ~ValidBase64(inp.tok1)
      /\ pc \notin {"Start", "CheckKeyType", "DecodeBase64"} )
    => /\ pc = "Error"
       /\ reads = <<>>
       /\ outcome.kind # "return"

\* C5: a line of two tokens or more whose token 0 is not exactly 'ssh-rsa'
\* fails with the unsupported-key-type error whatever token 1 holds: token 1
\* is never decoded and no field is read.
C5_KeyTypeFirst ==
    (inp.ntok = 2 /\ inp.tok0 # SSH_RSA) =>
        /\ pc \in {"Start", "CheckKeyType", "Error"}
        /\ key_data = <<>>
        /\ reads = <<>>
        /\ pc = "Error" => outcome = UnsupportedKeyType(inp.tok0)

C5_Witness ==
    /\ inp.tok0 = <<83, 83, 72, 45, 82, 83, 65>>
    /\ inp.tok1 = NotBase64
    /\ Len(parts) > 2
    /\ pc = "Error"
    /\ outcome = UnsupportedKeyType(<<83, 83, 72, 45, 82, 83, 65>>)

\* C6: a text of fewer than two tokens fails with the malformed-key-line
\* error and nothing else; and what follows token 1 never changes the
\* outcome of a call.
C6_TooFewTokens ==
    /\ inp.ntok < 2 =>
          /\ pc \in {"Start", "Error"}
          /\ pc = "Error" => outcome = MalformedKeyLine
    /\ (inp.ntok = 2 /\ Ended) =>
          outcome = extract_rsa_components_from_string(
                        TextOf([inp EXCEPT !.lay.tail = <<>>]))

C6_Witness ==
    /\ inp.ntok = 1
    /\ inp.tok0 = SSH_RSA
    /\ inp.lay.lead # <<>>
    /\ Len(parts) = 1
    /\ pc = "Error"
    /\ outcome = MalformedKeyLine

\* C7: once the first field is read, a payload that is not byte for byte
\* 'ssh-rsa' ends the call with the blob-type-mismatch error.
C7_InnerTagMismatch ==
    ( /\ Len(reads) >= 1
      /\ ~Raised(reads[1][2])
      /\ reads[1][2].val.payload # SSH_RSA )
    => /\ pc = "Error"
       /\ outcome.kind = "ValueError"
       /\ outcome.msg = BlobTypeMismatch(<<>>).msg

\* The unsigned big-endian value of a payload: the sum of
\* payload[i] * 256^(len - i).
RECURSIVE Pow256(_)
Pow256(k) == IF k = 0 THEN 1 ELSE 256 * Pow256(k - 1)

RECURSIVE BigEndianSum(_, _)
BigEndianSum(payload, i) ==
    IF i > Len(payload) THEN 0
    ELSE (IF payload[i] = 0 THEN 0 ELSE payload[i] * Pow256(Len(payload) - i))
         + BigEndianSum(payload, i + 1)

\* The reads follow one another: the first at offset 0, each next one at
\* the offset the one before returned, three at most.
ReadsChained ==
    /\ Len(reads) <= 3
    /\ \A k \in 1..Len(reads) :
          /\ reads[k][1] = (IF k = 1 THEN 0 ELSE reads[k - 1][2].val.offset)
          /\ k < Len(reads) => ~Raised(reads[k][2])

\* The states of the blob decode, in order.
BlobStage ==
    CASE pc = "ExpectTypeTag"  -> 0
      [] pc = "ExpectExponent" -> 1
      [] pc = "ExpectModulus"  -> 2
      [] pc = "Done"           -> 3
      [] OTHER                 -> -1

C8_States ==
    /\ ReadsChained
    \* each state has made the reads of the states before it
    /\ BlobStage >= 0 => Len(reads) = BlobStage
    \* the exponent is read only behind a type tag that was checked
    /\ Len(reads) >= 2 => reads[1][2].val.payload = SSH_RSA
    \* a wrong type tag with a truncated exponent reports the type tag
    /\ (inp.fam = "innertag" /\ pc = "Error") =>
          /\ Len(reads) = 1
          /\ outcome.msg # LengthPrefixOutOfBounds(0).msg
          /\ outcome.msg # PayloadOutOfBounds(0, 0).msg
    \* (e, n) is produced in Done and only there, after three good reads
    /\ (pc = "Done") = (outcome.kind = "return")
    /\ pc = "Done" => Len(reads) = 3 /\ ~Raised(reads[3][2])
    /\ pc = "Error" => outcome.kind \notin {"pending", "return"}
    /\ pc \notin {"Done", "Error"} => outcome = Pending

C8_Steps ==
    \* one state forward at a time, or out by an error
    /\ BlobStage \in 0..2 =>
          pc' \in {pc, "Error"} \/ BlobStage' = BlobStage + 1
    \* Done and the error state are final, and Done has no way back
    /\ pc \in {"Done", "Error"} => pc' = pc /\ outcome' = outcome
    \* the decode starts at ExpectTypeTag, offset 0
    /\ (BlobStage = -1 /\ BlobStage' >= 0) =>
          pc' = "ExpectTypeTag" /\ offset' = 0 /\ reads' = <<>>

\* C8: the blob decode goes ExpectTypeTag, ExpectExponent, ExpectModulus,
\* Done in that order, each read at the offset the one before returned; the
\* type tag is checked before the exponent is read; an error at any state
\* is final; and (e, n) comes out only in Done, after three good reads.
C8_StateMachine == [](C8_States) /\ [][C8_Steps]_vars

C8_Witness ==
    /\ pc = "Done"
    /\ inp.tok0 = SSH_RSA
    /\ inp.tok1 = Scenario.tok1
    /\ <<reads[1][1], reads[2][1], reads[3][1]>> = <<0, 11, 18>>
    /\ offset = 25

\* C9: on success e and n are the unsigned big-endian values of the second
\* and the third payload: 0 for an empty payload, never negative, and
\* unchanged by leading zero bytes.
C9_BigEndian ==
    pc = "Done" =>
        LET e_payload == reads[2][2].val.payload
            n_payload == reads[3][2].val.payload
        IN  /\ outcome = Return(BigEndianSum(e_payload, 1), BigEndianSum(n_payload, 1))
            /\ outcome.args[1] >= 0 /\ outcome.args[2] >= 0
            /\ e_payload = <<>> => outcome.args[1] = 0
            /\ e_payload = <<1, 0, 1>> => outcome.args[1] = 65537
            /\ n_payload = <<1, 2, 3>> => outcome.args[2] = 66051
            /\ (e_payload # <<>> /\ e_payload[1] = 0) =>
                  outcome.args[1] = BigEndianSum(Tail(e_payload), 1)

C9_Witness ==
    /\ pc = "Done"
    /\ reads[2][2].val.payload = <<>>
    /\ reads[3][2].val.payload = <<0, 129>>
    /\ outcome = Return(0, 129)

\* C10: on a readable file that holds the text, the file entry point ends
\* as the string entry point does on the text: the same (e, n), or the same
\* error.
C10_EntryPointsAgree ==
    (Ended /\ manual # Pending) => manual = outcome

C10_Witness ==
    /\ Ended
    /\ manual = outcome
    /\ manual = Return(65537, 66051)
    /\ inp.lay.sep = <<13, 10>>

====
